---- MODULE Spec2Model ----
(***************************************************************************)
(* Model of src/lib/index.js (class SchemaValidator, second definition,    *)
(* lines 370-975): schema inference from sample JSON bodies, the schema    *)
(* file kept on disk, and the synchronous / asynchronous validation calls. *)
(*                                                                         *)
(* JSON values are tagged records:                                         *)
(*   [k |-> "null"], [k |-> "boolean", b], [k |-> "number", n, d] (the     *)
(*   rational n/d), [k |-> "string", s], [k |-> "array", a] (a sequence),  *)
(*   [k |-> "object", o] (a function from own keys to values).             *)
(* Schema nodes are records with optional fields, as in the JSON document: *)
(*   type (sequence of tags) with list (Array.isArray(type)), format,      *)
(*   properties, required, items, and "$schema" on the root.               *)
(***************************************************************************)
EXTENDS Integers, Sequences, FiniteSets, TLC

VARIABLES
  file,            \* the schema file <base>/<folder>/<name>_schema.json
  dir,             \* the directory of the schema file exists
  last,            \* the call that has just completed and its outcome
  stage,           \* "input" before the function under study has run
  items,           \* input of the field merger: a sequence of sample objects
  typeMap,         \* result of _mergeTypeInfo(items)
  requiredFields,  \* result of _getRequiredFields(items)
  text,            \* input of _detectFormat: a string
  fmt,             \* result of _detectFormat(text)
  payload,         \* the body whose mismatch is being reported
  instancePath,    \* err.instancePath of the mismatch
  val,             \* the value the path walk ends on
  bru,             \* the global bru that the constructor looks for
  argument,        \* schemaPathOrFolderName as passed to the constructor
  defaultDirExists,\* fs.existsSync('api-schemas') in the working directory
  instance,        \* the validator: not yet built, built, or the throw
  pc,              \* where each concurrent validateJsonSchema call stands
  bodyOf,          \* the body of each concurrent call
  readOf,          \* the file content each concurrent call has read
  returned         \* what each concurrent call has returned

vars ==
  <<file, dir, last, stage, items, typeMap, requiredFields, text, fmt,
    payload, instancePath, val, bru, argument, defaultDirExists, instance,
    pc, bodyOf, readOf, returned>>

mergeVars == <<items, typeMap, requiredFields>>
detectVars == <<text, fmt>>
walkVars == <<payload, instancePath, val>>
constructVars == <<bru, argument, defaultDirExists, instance>>
raceVars == <<pc, bodyOf, readOf, returned>>

---------------------------------------------------------------------------
(* Bounds *)

\* longest root array of a body handed to create / validate
MaxLen == 2
\* longest sample sequence handed to the field merger
MaxItems == 2

---------------------------------------------------------------------------
(* JSON values *)

JNull == [k |-> "null"]
JBool(x) == [k |-> "boolean", b |-> x]
JNum(x, y) == [k |-> "number", n |-> x, d |-> y]
JStr(x) == [k |-> "string", s |-> x]
JArr(x) == [k |-> "array", a |-> x]
JObj(x) == [k |-> "object", o |-> x]

NoFields == <<>>

IsNull(v) == v.k = "null"
IsArray(v) == v.k = "array"
\* JavaScript typeof: null, arrays and plain objects are all 'object'
TypeOf(v) ==
  IF v.k \in {"null", "array", "object"} THEN "object" ELSE v.k
\* i && typeof i === 'object' && !Array.isArray(i)
IsPlainObject(v) == (~IsNull(v)) /\ TypeOf(v) = "object" /\ ~IsArray(v)
HasOwn(item, key) == key \in DOMAIN item.o

RECURSIVE SeqFilterPlain(_)
SeqFilterPlain(s) ==
  IF s = <<>> THEN <<>>
  ELSE IF IsPlainObject(Head(s)) THEN <<Head(s)>> \o SeqFilterPlain(Tail(s))
       ELSE SeqFilterPlain(Tail(s))

---------------------------------------------------------------------------
(* Strings: a string is the sequence of its characters *)

Digits == {"0", "1", "2", "3", "4", "5", "6", "7", "8", "9"}
LowerLetters ==
  {"a", "b", "c", "d", "e", "f", "g", "h", "i", "j", "k", "l", "m",
   "n", "o", "p", "q", "r", "s", "t", "u", "v", "w", "x", "y", "z"}
UpperLetters ==
  {"A", "B", "C", "D", "E", "F", "G", "H", "I", "J", "K", "L", "M",
   "N", "O", "P", "Q", "R", "S", "T", "U", "V", "W", "X", "Y", "Z"}
Letters == LowerLetters \cup UpperLetters
\* [0-9a-f] under the i flag
HexDigits == Digits \cup {"a", "b", "c", "d", "e", "f", "A", "B", "C", "D", "E", "F"}
\* \s
Whitespace == {" ", "\t", "\n", "\r"}

\* every character of v at the positions lo..hi is in the class
AllIn(v, lo, hi, class) == \A i \in lo..hi : v[i] \in class

From(v, i) == SubSeq(v, i, Len(v))

\* String.prototype.split on a one-character separator
RECURSIVE SplitFrom(_, _, _)
SplitFrom(v, sep, cur) ==
  IF v = <<>> THEN <<cur>>
  ELSE IF Head(v) = sep THEN <<cur>> \o SplitFrom(Tail(v), sep, <<>>)
       ELSE SplitFrom(Tail(v), sep, Append(cur, Head(v)))

Split(v, sep) == SplitFrom(v, sep, <<>>)

\* String.prototype.includes for a one-character needle
Includes(v, c) == \E i \in 1..Len(v) : v[i] = c

---------------------------------------------------------------------------
(* Format detection: FORMAT_PATTERNS and _detectFormat *)

\* the format names of FORMAT_PATTERNS, in evaluation order
FORMAT_PATTERNS ==
  <<"date-time", "date", "time", "duration", "uuid", "email", "uri",
    "ipv4", "ipv6", "hostname">>

\* \d{4}-\d{2}-\d{2}
DateShape(v) ==
  /\ Len(v) = 10
  /\ AllIn(v, 1, 4, Digits) /\ v[5] = "-"
  /\ AllIn(v, 6, 7, Digits) /\ v[8] = "-"
  /\ AllIn(v, 9, 10, Digits)

\* \d{2}:\d{2}:\d{2}
ClockShape(v) ==
  /\ Len(v) = 8
  /\ AllIn(v, 1, 2, Digits) /\ v[3] = ":"
  /\ AllIn(v, 4, 5, Digits) /\ v[6] = ":"
  /\ AllIn(v, 7, 8, Digits)

\* \.\d+
FractionShape(v) == Len(v) >= 2 /\ v[1] = "." /\ AllIn(v, 2, Len(v), Digits)

\* Z|[+-]\d{2}:?\d{2}   (i flag)
ZoneShape(v) ==
  \/ Len(v) = 1 /\ v[1] \in {"Z", "z"}
  \/ /\ Len(v) = 5 /\ v[1] \in {"+", "-"} /\ AllIn(v, 2, 5, Digits)
  \/ /\ Len(v) = 6 /\ v[1] \in {"+", "-"} /\ AllIn(v, 2, 3, Digits)
     /\ v[4] = ":" /\ AllIn(v, 5, 6, Digits)

\* (\.\d+)?(Z|[+-]\d{2}:?\d{2})?$
TimeTail(v) ==
  \E k \in 0..Len(v) :
    /\ k = 0 \/ FractionShape(SubSeq(v, 1, k))
    /\ k = Len(v) \/ ZoneShape(From(v, k + 1))

DateTimeTest(v) ==
  /\ Len(v) >= 19
  /\ DateShape(SubSeq(v, 1, 10))
  /\ v[11] \in {"T", "t", " "}
  /\ ClockShape(SubSeq(v, 12, 19))
  /\ TimeTail(From(v, 20))

TimeTest(v) ==
  /\ Len(v) >= 8
  /\ ClockShape(SubSeq(v, 1, 8))
  /\ TimeTail(From(v, 9))

\* the position after the run of digits that starts at i
RECURSIVE SkipDigits(_, _)
SkipDigits(v, i) ==
  IF i <= Len(v) /\ v[i] \in Digits THEN SkipDigits(v, i + 1) ELSE i

\* (\d+X)? at position i: the position after it
OptUnit(v, i, unit) ==
  LET j == SkipDigits(v, i)
  IN IF j > i /\ j <= Len(v) /\ v[j] = unit THEN j + 1 ELSE i

\* (\d+(\.\d+)?S)? at position i: the position after it
OptSeconds(v, i) ==
  LET j == SkipDigits(v, i)
      k == IF j > i /\ j <= Len(v) /\ v[j] = "." /\ SkipDigits(v, j + 1) > j + 1
             THEN SkipDigits(v, j + 1) ELSE j
  IN IF j > i /\ k <= Len(v) /\ v[k] = "S" THEN k + 1 ELSE i

\* ^P(?!$)(\d+Y)?(\d+M)?(\d+W)?(\d+D)?(T(?!$)(\d+H)?(\d+M)?(\d+(\.\d+)?S)?)?$
DurationTest(v) ==
  /\ Len(v) >= 2
  /\ v[1] = "P"
  /\ LET d == OptUnit(v, OptUnit(v, OptUnit(v, OptUnit(v, 2, "Y"), "M"), "W"), "D")
     IN \/ d = Len(v) + 1
        \/ /\ d < Len(v)
           /\ v[d] = "T"
           /\ OptSeconds(v, OptUnit(v, OptUnit(v, d + 1, "H"), "M")) = Len(v) + 1

\* ^[0-9a-f]{8}-[0-9a-f]{4}-[0-5][0-9a-f]{3}-[089ab][0-9a-f]{3}-[0-9a-f]{12}$
UuidTest(v) ==
  /\ Len(v) = 36
  /\ AllIn(v, 1, 8, HexDigits) /\ v[9] = "-"
  /\ AllIn(v, 10, 13, HexDigits) /\ v[14] = "-"
  /\ v[15] \in {"0", "1", "2", "3", "4", "5"}
  /\ AllIn(v, 16, 18, HexDigits) /\ v[19] = "-"
  /\ v[20] \in {"0", "8", "9", "a", "b", "A", "B"}
  /\ AllIn(v, 21, 23, HexDigits) /\ v[24] = "-"
  /\ AllIn(v, 25, 36, HexDigits)

\* [^\s@"()<>\[\]\\,;:]
LocalForbidden ==
  Whitespace \cup {"@", "\"", "(", ")", "<", ">", "[", "]", "\\", ",", ";", ":"}

\* ^[^\s@"()<>\[\]\\,;:]+@[^\s@]+\.[^\s@]+$ and v.length <= 254
EmailTest(v) ==
  /\ \E at \in 2..Len(v) :
       /\ v[at] = "@"
       /\ \A i \in 1..(at - 1) : v[i] \notin LocalForbidden
       /\ \A i \in (at + 1)..Len(v) : v[i] \notin Whitespace \cup {"@"}
       /\ \E dot \in (at + 2)..(Len(v) - 1) : v[dot] = "."
  /\ Len(v) <= 254

\* ^[a-zA-Z][a-zA-Z0-9+\-.]*:\/\/[^\s]+$
UriTest(v) ==
  \E colon \in 2..(Len(v) - 3) :
    /\ v[1] \in Letters
    /\ AllIn(v, 2, colon - 1, Letters \cup Digits \cup {"+", "-", "."})
    /\ v[colon] = ":" /\ v[colon + 1] = "/" /\ v[colon + 2] = "/"
    /\ \A i \in (colon + 3)..Len(v) : v[i] \notin Whitespace

\* 25[0-5]|2[0-4]\d|1\d{2}|[1-9]?\d
Octet(p) ==
  /\ Len(p) \in 1..3
  /\ AllIn(p, 1, Len(p), Digits)
  /\ Len(p) = 2 => p[1] # "0"
  /\ Len(p) = 3 =>
       \/ p[1] = "1"
       \/ p[1] = "2" /\ p[2] \in {"0", "1", "2", "3", "4"}
       \/ p[1] = "2" /\ p[2] = "5" /\ p[3] \in {"0", "1", "2", "3", "4", "5"}

Ipv4Test(v) ==
  LET parts == Split(v, ".")
  IN Len(parts) = 4 /\ \A i \in 1..4 : Octet(parts[i])

\* [0-9a-f]{1,4}   (i flag)
HexGroup(g) == Len(g) \in 1..4 /\ AllIn(g, 1, Len(g), HexDigits)

\* the positions at which '::' starts
DoubleColons(v) == { i \in 1..(Len(v) - 1) : v[i] = ":" /\ v[i + 1] = ":" }

\* the first '::' of v
FirstDoubleColon(v) ==
  CHOOSE i \in DoubleColons(v) : \A j \in DoubleColons(v) : i <= j

Ipv6Test(v) ==
  LET groups == Split(v, ":")
  IN IF Len(groups) = 8 /\ \A i \in 1..8 : HexGroup(groups[i]) THEN TRUE
     ELSE IF DoubleColons(v) # {} THEN
       LET at == FirstDoubleColon(v)
           side1 == SubSeq(v, 1, at - 1)
           side2 == From(v, at + 2)
           left == IF side1 # <<>> THEN Split(side1, ":") ELSE <<>>
           right == IF side2 # <<>> THEN Split(side2, ":") ELSE <<>>
       IN /\ DoubleColons(side2) = {}
          /\ Len(left) + Len(right) <= 7
          /\ \A i \in 1..Len(left) : HexGroup(left[i])
          /\ \A i \in 1..Len(right) : HexGroup(right[i])
     ELSE FALSE

\* (?!-)[a-zA-Z0-9-]{1,63}(?<!-)
HostLabel(l) ==
  /\ Len(l) \in 1..63
  /\ AllIn(l, 1, Len(l), Letters \cup Digits \cup {"-"})
  /\ l[1] # "-" /\ l[Len(l)] # "-"

HostnameTest(v) ==
  /\ Len(v) <= 253
  /\ Includes(v, ".")
  /\ LET labels == Split(v, ".")
     IN Len(labels) >= 2 /\ \A i \in 1..Len(labels) : HostLabel(labels[i])

\* the test of the entry of FORMAT_PATTERNS with this format name
PatternTest(format, v) ==
  CASE format = "date-time" -> DateTimeTest(v)
    [] format = "date"      -> DateShape(v)
    [] format = "time"      -> TimeTest(v)
    [] format = "duration"  -> DurationTest(v)
    [] format = "uuid"      -> UuidTest(v)
    [] format = "email"     -> EmailTest(v)
    [] format = "uri"       -> UriTest(v)
    [] format = "ipv4"      -> Ipv4Test(v)
    [] format = "ipv6"      -> Ipv6Test(v)
    [] format = "hostname"  -> HostnameTest(v)

\* value.trim() === ''
Blank(v) == \A i \in 1..Len(v) : v[i] \in Whitespace

\* mutant: the last entry that accepts wins
RECURSIVE FirstMatch_LastWins(_, _)
FirstMatch_LastWins(pats, v) ==
  IF pats = <<>> THEN "none"
  ELSE IF PatternTest(pats[Len(pats)], v) THEN pats[Len(pats)]
       ELSE FirstMatch_LastWins(SubSeq(pats, 1, Len(pats) - 1), v)

RECURSIVE FirstMatch(_, _)
FirstMatch(pats, v) ==
  IF pats = <<>> THEN "none"
  ELSE IF PatternTest(Head(pats), v) THEN Head(pats)
       ELSE FirstMatch(Tail(pats), v)

\* returns the format name, or "none" for the code's null
_detectFormat(v) ==
  IF Blank(v) THEN "none" ELSE FirstMatch(FORMAT_PATTERNS, v)

\* { type } or { type, format }
\* return fmt ? { type: 'string', format: fmt } : { type: 'string' }
StringDescriptor(detected) ==
  IF detected # "none"
    THEN [type |-> <<"string">>, list |-> FALSE, format |-> detected]
    ELSE [type |-> <<"string">>, list |-> FALSE]

_getTypeDescriptor(value) ==
  IF IsNull(value) THEN [type |-> <<"null">>, list |-> FALSE]
  ELSE IF IsArray(value) THEN [type |-> <<"array">>, list |-> FALSE]
  ELSE IF TypeOf(value) = "object" THEN [type |-> <<"object">>, list |-> FALSE]
  ELSE IF TypeOf(value) = "string" THEN StringDescriptor(_detectFormat(value.s))
  ELSE [type |-> <<TypeOf(value)>>, list |-> FALSE]

---------------------------------------------------------------------------
(* Field merger and required-field calculator *)

RECURSIVE AllKeys(_)
AllKeys(its) ==
  IF its = <<>> THEN {} ELSE DOMAIN Head(its).o \cup AllKeys(Tail(its))

SeqContains(s, x) == \E i \in 1..Len(s) : s[i] = x

\* meta.types: the Set of type tags, in insertion order
\* mutant: an array push, without the Set's test for membership
SetAdd_Always(acc, t) == Append(acc, t)

\* mutant: the set is replaced by the tag of the item at hand
SetAdd_Replace(acc, t) == <<t>>

\* Set.prototype.add on a set kept in insertion order
SetAdd(acc, t) == IF SeqContains(acc, t) THEN acc ELSE Append(acc, t)

RECURSIVE MetaTypes(_, _, _)
MetaTypes(its, key, acc) ==
  IF its = <<>> THEN acc
  ELSE LET item == Head(its)
       IN IF (~HasOwn(item, key)) \/ IsNull(item.o[key])
            THEN MetaTypes(Tail(its), key, acc)
            ELSE MetaTypes(Tail(its), key,
                           SetAdd(acc, _getTypeDescriptor(item.o[key]).type[1]))

\* meta.formats
MetaFormats(its, key) ==
  { descriptor.format :
      descriptor \in
        { d \in { _getTypeDescriptor(its[i].o[key]) :
                    i \in { j \in 1..Len(its) :
                              HasOwn(its[j], key) /\ ~IsNull(its[j].o[key]) } } :
            "format" \in DOMAIN d } }

\* mutant: a null value is not counted as nullable, only a missing field
MetaHasNull_MissingOnly(its, key) ==
  \E i \in 1..Len(its) : ~HasOwn(its[i], key)

\* mutant: a field missing from an item is not counted as nullable
MetaHasNull_ExplicitOnly(its, key) ==
  \E i \in 1..Len(its) : HasOwn(its[i], key) /\ IsNull(its[i].o[key])

\* meta.hasNull
MetaHasNull(its, key) ==
  \E i \in 1..Len(its) : (~HasOwn(its[i], key)) \/ IsNull(its[i].o[key])

\* mutant: a format is attached whenever some format was detected
FinalDescriptor_AnyFormat(typeList, formats) ==
  IF formats # {}
    THEN [type |-> typeList, list |-> Len(typeList) # 1,
          format |-> CHOOSE f \in formats : TRUE]
    ELSE [type |-> typeList, list |-> Len(typeList) # 1]

\* the final descriptor built from a field's typeList and meta.formats
FinalDescriptor(typeList, formats) ==
  IF Cardinality(formats) = 1
    THEN [type |-> typeList, list |-> Len(typeList) # 1,
          format |-> CHOOSE f \in formats : TRUE]
    ELSE [type |-> typeList, list |-> Len(typeList) # 1]

FieldDescriptor(its, key) ==
  FinalDescriptor(MetaTypes(its, key, <<>>)
                    \o (IF MetaHasNull(its, key) THEN <<"null">> ELSE <<>>),
                  MetaFormats(its, key))

_mergeTypeInfo(its) == [key \in AllKeys(its) |-> FieldDescriptor(its, key)]

\* mutant: the keys of the first item, as in the earlier createJsonSchema
_getRequiredFields_FirstItem(its) ==
  IF Len(its) = 0 THEN {} ELSE DOMAIN its[1].o

\* mutant: presence alone, without the item[key] !== null test
_getRequiredFields_PresentOnly(its) ==
  IF Len(its) = 0 THEN {}
  ELSE { key \in AllKeys(its) : \A i \in 1..Len(its) : HasOwn(its[i], key) }

_getRequiredFields(its) ==
  IF Len(its) = 0 THEN {}
  ELSE { key \in AllKeys(its) :
           \A i \in 1..Len(its) : HasOwn(its[i], key) /\ ~IsNull(its[i].o[key]) }

\* Object.keys(item), the item's keys in their insertion order; order lists
\* every key, the item's own among them
ObjectKeys(item, order) == SelectSeq(order, LAMBDA k : HasOwn(item, k))

\* items.flatMap((item) => Object.keys(item))
RECURSIVE FlatKeys(_, _)
FlatKeys(its, orders) ==
  IF its = <<>> THEN <<>>
  ELSE ObjectKeys(Head(its), Head(orders)) \o FlatKeys(Tail(its), Tail(orders))

\* new Set(...): the members in the order of their first insertion
RECURSIVE NewSet(_, _)
NewSet(list, acc) ==
  IF list = <<>> THEN acc ELSE NewSet(Tail(list), SetAdd(acc, Head(list)))

\* Object.entries(result) of _mergeTypeInfo: one entry per key of allKeys,
\* in the insertion order of allKeys
MergeEntries(its, orders) ==
  LET allKeys == NewSet(FlatKeys(its, orders), <<>>)
  IN [i \in 1..Len(allKeys) |->
        [key |-> allKeys[i], descriptor |-> FieldDescriptor(its, allKeys[i])]]

\* the array that _getRequiredFields returns: allKeys filtered, in order
RequiredList(its, orders) ==
  IF Len(its) = 0 THEN <<>>
  ELSE SelectSeq(NewSet(FlatKeys(its, orders), <<>>),
                 LAMBDA k : k \in _getRequiredFields(its))

---------------------------------------------------------------------------
(* generate-schema: generateSchema.json(value), for the bodies of the model *)

\* getPropertyType: Number.isInteger(value) ? 'integer' : 'number'
GenType(v) ==
  IF v.k = "number" THEN (IF v.n % v.d = 0 THEN "integer" ELSE "number") ELSE v.k

EmptyNode == [any |-> TRUE]

\* The items node inferred for a root array.  Every non-empty root array of
\* the model starts with null or a plain object, so line 696 replaces it.
GenItems(arr) ==
  IF Len(arr) = 0 THEN EmptyNode
  ELSE [type |-> <<GenType(arr[1])>>, list |-> FALSE]

RECURSIVE GenNode(_)
GenNode(v) ==
  IF v.k = "object" THEN
    [type |-> <<"object">>, list |-> FALSE,
     properties |-> [key \in DOMAIN v.o |-> GenNode(v.o[key])]]
  ELSE IF v.k = "array" THEN
    [type |-> <<"array">>, list |-> FALSE, items |-> GenItems(v.a)]
  ELSE [type |-> <<GenType(v)>>, list |-> FALSE]

Draft04 == "http://json-schema.org/draft-04/schema#"
Draft07 == "http://json-schema.org/draft-07/schema#"

GenerateSchemaJson(json) == GenNode(json) @@ [dialect |-> Draft04]

---------------------------------------------------------------------------
(* Schema assembly: _enrichSchemaFormats and the body of createJsonSchema *)

\* i && typeof i === 'object'
IsObjectLike(v) == (~IsNull(v)) /\ TypeOf(v) = "object"

RECURSIVE SeqFilterObjectLike(_)
SeqFilterObjectLike(s) ==
  IF s = <<>> THEN <<>>
  ELSE IF IsObjectLike(Head(s)) THEN <<Head(s)>> \o SeqFilterObjectLike(Tail(s))
       ELSE SeqFilterObjectLike(Tail(s))

\* if (fmt && !schema.format) schema.format = fmt
SetFormat(schema, detected) ==
  IF detected # "none" /\ "format" \notin DOMAIN schema
    THEN schema @@ [format |-> detected]
    ELSE schema

\* the schema node after the in-place enrichment
RECURSIVE _enrichSchemaFormats(_, _)
_enrichSchemaFormats(schema, sample) ==
  IF IsNull(sample) \/ "type" \notin DOMAIN schema THEN schema
  ELSE IF SeqContains(schema.type, "string") /\ TypeOf(sample) = "string" THEN
    SetFormat(schema, _detectFormat(sample.s))
  ELSE IF /\ SeqContains(schema.type, "object")
          /\ "properties" \in DOMAIN schema
          /\ TypeOf(sample) = "object" /\ ~IsArray(sample) THEN
    [schema EXCEPT !.properties =
       [key \in DOMAIN schema.properties |->
          IF HasOwn(sample, key)
            THEN _enrichSchemaFormats(schema.properties[key], sample.o[key])
            ELSE schema.properties[key]]]
  ELSE IF /\ SeqContains(schema.type, "array")
          /\ "items" \in DOMAIN schema
          /\ IsArray(sample) /\ Len(sample.a) > 0 THEN
    IF /\ "type" \in DOMAIN schema.items
       /\ schema.items.type = <<"object">> /\ ~schema.items.list
       /\ "properties" \in DOMAIN schema.items
    THEN LET merged == _mergeTypeInfo(SeqFilterObjectLike(sample.a))
         IN [schema EXCEPT !.items.properties =
               [key \in DOMAIN schema.items.properties |->
                  IF key \in DOMAIN merged
                    THEN merged[key] @@ schema.items.properties[key]
                    ELSE schema.items.properties[key]]]
    ELSE [schema EXCEPT !.items = _enrichSchemaFormats(schema.items, sample.a[1])]
  ELSE schema

\* lines 685-709 (and 753-775): the schema document that is serialised
BuildSchema(json) ==
  LET schema == [GenerateSchemaJson(json) EXCEPT !.dialect = Draft07]
  IN IF IsArray(json) /\ Len(json.a) > 0 /\ TypeOf(json.a[1]) = "object" THEN
       LET objectItems == SeqFilterPlain(json.a)
       IN [schema EXCEPT !.items =
             [type |-> <<"object">>, list |-> FALSE,
              properties |-> _mergeTypeInfo(objectItems),
              required |-> _getRequiredFields(objectItems)]]
     ELSE IF (~IsArray(json)) /\ (~IsNull(json)) /\ TypeOf(json) = "object" THEN
       _enrichSchemaFormats(schema, json)
     ELSE schema

---------------------------------------------------------------------------
(* Ajv with ajv-formats: compile(schema) and validate(body) *)

\* the number a run of decimal digits denotes
DigitVal(c) ==
  CHOOSE n \in 0..9 : <<"0", "1", "2", "3", "4", "5", "6", "7", "8", "9">>[n + 1] = c

RECURSIVE NumVal(_)
NumVal(v) ==
  IF v = <<>> THEN 0
  ELSE 10 * NumVal(SubSeq(v, 1, Len(v) - 1)) + DigitVal(v[Len(v)])

\* ajv-formats date: the shape, and a day that the month has
AjvDate(v) ==
  /\ DateShape(v)
  /\ LET year == NumVal(SubSeq(v, 1, 4))
         month == NumVal(SubSeq(v, 6, 7))
         day == NumVal(SubSeq(v, 9, 10))
         leap == year % 4 = 0 /\ (year % 100 # 0 \/ year % 400 = 0)
         days == <<31, 28, 31, 30, 31, 30, 31, 31, 30, 31, 30, 31>>
     IN /\ month \in 1..12
        /\ day >= 1
        /\ day <= (IF month = 2 /\ leap THEN 29 ELSE days[month])

\* ajv-formats time with a time zone: hh:mm:ss, optional fraction, zone
AjvZone(v) ==
  \/ ZoneShape(v)
  \/ Len(v) = 3 /\ v[1] \in {"+", "-"} /\ AllIn(v, 2, 3, Digits)

AjvTimeWithZone(v) ==
  /\ Len(v) >= 9
  /\ ClockShape(SubSeq(v, 1, 8))
  /\ NumVal(SubSeq(v, 1, 2)) <= 23
  /\ NumVal(SubSeq(v, 4, 5)) <= 59
  /\ NumVal(SubSeq(v, 7, 8)) <= 59
  /\ \E k \in 8..(Len(v) - 1) :
       /\ k = 8 \/ FractionShape(SubSeq(v, 9, k))
       /\ AjvZone(From(v, k + 1))

\* ajv-formats date-time: date, separator, time with a time zone
AjvDateTime(v) ==
  /\ Len(v) >= 12
  /\ AjvDate(SubSeq(v, 1, 10))
  /\ v[11] \in {"T", "t", " "}
  /\ AjvTimeWithZone(From(v, 12))

\* the formats that the strings of the model's bodies are tagged with
AjvFormatValid(format, v) ==
  CASE format = "date-time" -> AjvDateTime(v)
    [] format = "date"      -> AjvDate(v)
    [] OTHER                -> FALSE

TypeMatches(t, v) ==
  IF t = "integer" THEN v.k = "number" /\ v.n % v.d = 0 ELSE v.k = t

\* mutant: the required keyword is not enforced
RECURSIVE AjvValidate_NoRequired(_, _)
AjvValidate_NoRequired(node, v) ==
  /\ "type" \in DOMAIN node =>
       \E i \in 1..Len(node.type) : TypeMatches(node.type[i], v)
  /\ ("format" \in DOMAIN node /\ v.k = "string") =>
       AjvFormatValid(node.format, v.s)
  /\ ("properties" \in DOMAIN node /\ v.k = "object") =>
       \A key \in DOMAIN node.properties \cap DOMAIN v.o :
         AjvValidate_NoRequired(node.properties[key], v.o[key])
  /\ ("items" \in DOMAIN node /\ v.k = "array") =>
       \A i \in 1..Len(v.a) : AjvValidate_NoRequired(node.items, v.a[i])

RECURSIVE AjvValidate(_, _)
AjvValidate(node, v) ==
  /\ "type" \in DOMAIN node =>
       \E i \in 1..Len(node.type) : TypeMatches(node.type[i], v)
  /\ ("format" \in DOMAIN node /\ v.k = "string") =>
       AjvFormatValid(node.format, v.s)
  /\ ("properties" \in DOMAIN node /\ v.k = "object") =>
       \A key \in DOMAIN node.properties \cap DOMAIN v.o :
         AjvValidate(node.properties[key], v.o[key])
  /\ ("required" \in DOMAIN node /\ v.k = "object") =>
       node.required \subseteq DOMAIN v.o
  /\ ("items" \in DOMAIN node /\ v.k = "array") =>
       \A i \in 1..Len(v.a) : AjvValidate(node.items, v.a[i])

\* ajv.compile throws on a meta-schema it does not know (draft-04)
AjvCompiles(doc) == doc.dialect = Draft07

---------------------------------------------------------------------------
(* The path walk of the error report (lines 817-825 and 908-915) *)

Undefined == [k |-> "undefined"]
\* let actual = '' is left as it is: no walk was made
NotWalked == [k |-> "unset"]
\* what a property access on null or undefined would do
Threw == [k |-> "threw"]

\* JavaScript truthiness of a value
Truthy(v) ==
  CASE v.k \in {"null", "undefined"} -> FALSE
    [] v.k = "boolean" -> v.b
    [] v.k = "number" -> v.n # 0
    [] v.k = "string" -> v.s # <<>>
    [] OTHER -> TRUE

\* the characters of the field names of the model
KeyChars == [a |-> <<"a">>, b |-> <<"b">>]

\* a canonical array index: decimal digits without a leading zero
IsIndex(part) ==
  /\ part # <<>>
  /\ AllIn(part, 1, Len(part), Digits)
  /\ Len(part) > 1 => part[1] # "0"

\* val[part] on an object or an array (own properties)
Get(v, part) ==
  IF v.k = "object" THEN
    IF \E key \in DOMAIN v.o : KeyChars[key] = part
      THEN v.o[CHOOSE key \in DOMAIN v.o : KeyChars[key] = part]
      ELSE Undefined
  ELSE IF IsIndex(part) /\ NumVal(part) < Len(v.a) THEN v.a[NumVal(part) + 1]
  ELSE IF part = <<"l", "e", "n", "g", "t", "h">> THEN JNum(Len(v.a), 1)
  ELSE Undefined

\* if (part && val && typeof val === 'object') val = val[part];
WalkStep(v, part) ==
  IF part # <<>> /\ Truthy(v) /\ v.k \in {"null", "array", "object"}
    THEN (IF v.k = "null" THEN Threw ELSE Get(v, part))
    ELSE v

RECURSIVE WalkParts(_, _)
WalkParts(v, parts) ==
  IF parts = <<>> \/ v = Threw THEN v
  ELSE WalkParts(WalkStep(v, Head(parts)), Tail(parts))

\* errorPath.replace(/^\//, '')
StripSlash(path) ==
  IF path # <<>> /\ Head(path) = "/" THEN Tail(path) ELSE path

\* lines 813-825: from err.instancePath and body to the value reported
WalkPath(json, path) ==
  LET errorPath == IF path # <<>> THEN path ELSE <<"/">>
      pathParts == Split(StripSlash(errorPath), "/")
  IN IF errorPath # <<>> /\ Truthy(json)
       THEN WalkParts(json, pathParts)
       ELSE NotWalked

\* number to decimal digits
RECURSIVE Decimal(_)
Decimal(n) ==
  LET digit == <<"0", "1", "2", "3", "4", "5", "6", "7", "8", "9">>[(n % 10) + 1]
  IN IF n < 10 THEN <<digit>> ELSE Decimal(n \div 10) \o <<digit>>

\* validate.errors[0].instancePath for a value that fails (allErrors: false):
\* the JSON pointer of the first value at which a keyword fails
RECURSIVE AjvErrorPath(_, _, _)
AjvErrorPath(node, v, at) ==
  LET badKeys ==
        IF "properties" \in DOMAIN node /\ v.k = "object"
          THEN { key \in DOMAIN node.properties \cap DOMAIN v.o :
                   ~AjvValidate(node.properties[key], v.o[key]) }
          ELSE {}
      badItems ==
        IF "items" \in DOMAIN node /\ v.k = "array"
          THEN { i \in 1..Len(v.a) : ~AjvValidate(node.items, v.a[i]) }
          ELSE {}
  IN IF badKeys # {} THEN
       LET key == CHOOSE x \in badKeys : TRUE
       IN AjvErrorPath(node.properties[key], v.o[key],
                       at \o <<"/">> \o KeyChars[key])
     ELSE IF badItems # {} THEN
       LET i == CHOOSE x \in badItems : \A y \in badItems : x <= y
       IN AjvErrorPath(node.items, v.a[i], at \o <<"/">> \o Decimal(i - 1))
     ELSE at

---------------------------------------------------------------------------
(* The schema file *)

Absent == [state |-> "absent"]
Corrupt == [state |-> "corrupt"]
\* fs.writeFile(path, JSON.stringify(schema, null, 2))
Written(schema) == [state |-> "json", doc |-> schema]
\* fs.existsSync(schemaFilePath)
Exists(f) == f.state # "absent"
\* readFile succeeds and JSON.parse does not throw
Parses(f) == f.state = "json"

NoCall == [op |-> "none"]

\* mutant: the catch block rethrows whatever throwOnError says
TryValidate_Rethrow(loaded, validRes, throwOnError, verbose) ==
  IF loaded
    THEN (IF validRes THEN "true"
          ELSE IF throwOnError THEN "throw" ELSE "false")
    ELSE "throw"

\* mutant: throwOnError is ignored
TryValidate_NeverThrow(loaded, validRes, throwOnError, verbose) ==
  IF loaded /\ validRes THEN "true" ELSE "false"

\* mutant: the throw of a failed validation sits inside the verbose block
TryValidate_ThrowInVerbose(loaded, validRes, throwOnError, verbose) ==
  IF loaded
    THEN (IF validRes THEN "true"
          ELSE IF throwOnError /\ verbose THEN "throw" ELSE "false")
    ELSE IF throwOnError THEN "throw" ELSE "false"

\* the try / catch blocks of both validate methods: how the call ends,
\* given that the schema loaded (read, parsed, compiled) and what
\* validate(body) returned
TryValidate(loaded, validRes, throwOnError, verbose) ==
  IF loaded /\ validRes THEN "true"
  ELSE IF throwOnError THEN "throw"
  ELSE "false"

\* what the try / catch blocks write to the console; withSample: the sync
\* method also prints the start of the body
TryConsole(loaded, validRes, body, throwOnError, verbose, withSample) ==
  IF ~verbose THEN {}
  ELSE IF loaded /\ validRes THEN {"passed"}
  ELSE IF loaded THEN
    {"errors"}
      \cup (IF withSample /\ TypeOf(body) = "object" THEN {"sample"} ELSE {})
      \cup (IF throwOnError THEN {"loadError"} ELSE {})
  ELSE {"loadError"}

\* the actual value that the error report prints for the first error
ReportedActual(f, body) == WalkPath(body, AjvErrorPath(f.doc, body, <<>>))

\* readFileSync, JSON.parse and ajv.compile all succeed
Loads(f) == Parses(f) /\ AjvCompiles(f.doc)

\* how the try / catch part ends, what it prints and the value it reports
TryReport(f, body, loaded, validRes, throwOnError, verbose, withSample) ==
  [outcome |-> TryValidate(loaded, validRes, throwOnError, verbose),
   console |-> TryConsole(loaded, validRes, body, throwOnError, verbose,
                          withSample),
   actual |-> IF verbose /\ loaded /\ ~validRes
                THEN ReportedActual(f, body) ELSE NotWalked]

\* the try / catch part of a validate call on the file as it is when read
TryResult(f, body, throwOnError, verbose, withSample) ==
  TryReport(f, body, Loads(f), Loads(f) /\ AjvValidate(f.doc, body),
            throwOnError, verbose, withSample)

\* the result of a call that wrote the schema file, printed this and then
\* ran the try / catch part
AfterCreate(created, printed, try) ==
  [file |-> created, outcome |-> try.outcome,
   console |-> printed \cup try.console, actual |-> try.actual]

\* the try / catch part run on the file that the call has just written
TryCreated(created, printed, body, throwOnError, verbose, withSample) ==
  AfterCreate(created, printed,
              TryResult(created, body, throwOnError, verbose, withSample))

---------------------------------------------------------------------------
(* Schema paths *)

\* this.schemaBasePath, and the folderName and fileName of the calls
SchemaBasePath == <<"s", "c", "h", "e", "m", "a", "s">>
FolderName == <<"v", "p", "p", "/", "u", "s", "e", "r", "s">>
FileName == <<"l", "i", "s", "t">>

\* path.join: the non-empty segments, separated by '/'
RECURSIVE PathJoin(_)
PathJoin(parts) ==
  IF parts = <<>> THEN <<>>
  ELSE IF Head(parts) = <<>> THEN PathJoin(Tail(parts))
  ELSE IF PathJoin(Tail(parts)) = <<>> THEN Head(parts)
  ELSE Head(parts) \o <<"/">> \o PathJoin(Tail(parts))

\* `${fileName}_schema.json`
SchemaFileName(fileName) ==
  fileName \o <<"_", "s", "c", "h", "e", "m", "a", ".", "j", "s", "o", "n">>

\* const schemaFilePath of createJsonSchema and of the validate methods
SchemaFilePath(folderName, fileName) ==
  PathJoin(<<SchemaBasePath, folderName, SchemaFileName(fileName)>>)

\* mutant: the file name without the _schema.json suffix
getSchemaPath_NoSuffix(folderName, fileName) ==
  PathJoin(<<SchemaBasePath, folderName, fileName>>)

getSchemaPath(folderName, fileName) ==
  PathJoin(<<SchemaBasePath, folderName, SchemaFileName(fileName)>>)

---------------------------------------------------------------------------
(* The constructor *)

\* the default of schemaPathOrFolderName
DefaultFolder ==
  <<"a", "p", "i", "-", "s", "c", "h", "e", "m", "a", "s">>

\* the default parameter value applies when the argument is undefined
FolderOrPath(arg) == IF arg = Undefined THEN DefaultFolder ELSE arg

\* the values of the global bru: not declared, null, an object without cwd,
\* an object whose cwd is a string, and Bruno's object, whose cwd() returns
\* the collection directory
BruWithCwd(collection) ==
  [k |-> "object", cwd |-> [k |-> "function", returns |-> collection]]
BruValues ==
  {Undefined, JNull,
   [k |-> "object", cwd |-> Undefined],
   [k |-> "object", cwd |-> JStr(<<"/", "c", "o", "l">>)],
   BruWithCwd(<<"/", "c", "o", "l">>),
   BruWithCwd(<<"/", "w", "o", "r", "k">>),
   BruWithCwd(<<>>)}

\* the arguments: none, the default name, a relative and an absolute path,
\* and the empty string
Arguments ==
  {Undefined, DefaultFolder, SchemaBasePath,
   <<"/", "o", "p", "t", "/", "s">>, <<>>}

\* typeof bru !== 'undefined' && typeof bru.cwd === 'function'; reading
\* bru.cwd of null throws a TypeError
IsBrunoEnv(b) ==
  IF b = Undefined THEN "false"
  ELSE IF b = JNull THEN "TypeError"
  ELSE IF b.cwd.k = "function" THEN "true"
  ELSE "false"

\* new SchemaValidator(arg): the instance, or what the constructor throws
ConstructorResult(b, arg, exists) ==
  IF IsBrunoEnv(b) = "TypeError" THEN [state |-> "threw", error |-> "TypeError"]
  ELSE IF IsBrunoEnv(b) = "true"
    THEN [state |-> "built",
          schemaBasePath |-> b.cwd.returns \o <<"/">> \o FolderOrPath(arg)]
  ELSE IF FolderOrPath(arg) = DefaultFolder /\ ~exists
    THEN [state |-> "threw", error |-> "Error"]
  ELSE [state |-> "built", schemaBasePath |-> FolderOrPath(arg)]

\* the validator of the other specifications: built in Node.js on the base
\* path of the calls
Built ==
  /\ bru = Undefined
  /\ argument = SchemaBasePath
  /\ defaultDirExists = FALSE
  /\ instance = ConstructorResult(Undefined, SchemaBasePath, FALSE)

\* the two concurrent validateJsonSchema calls, before they are made
Calls == {"first", "second"}
NoCalls ==
  /\ pc = [p \in Calls |-> "idle"]
  /\ bodyOf = [p \in Calls |-> JNull]
  /\ readOf = [p \in Calls |-> Absent]
  /\ returned = [p \in Calls |-> "pending"]

---------------------------------------------------------------------------
(* Sample strings *)

\* "abc"
Str_abc ==
  <<"a", "b", "c">>

\* "2024-07-25"
Str_date ==
  <<"2", "0", "2", "4", "-", "0", "7", "-", "2", "5">>

\* "2024-13-45"
Str_badDate ==
  <<"2", "0", "2", "4", "-", "1", "3", "-", "4", "5">>

\* "2024-07-25T13:36:08.365Z"
Str_dateTime ==
  <<"2", "0", "2", "4", "-", "0", "7", "-", "2", "5", "T", "1", "3", ":",
    "3", "6", ":", "0", "8", ".", "3", "6", "5", "Z">>

\* ""
Str_empty ==
  <<>>

\* " "
Str_space ==
  <<" ">>

\* "not-a-date"
Str_notADate ==
  <<"n", "o", "t", "-", "a", "-", "d", "a", "t", "e">>

\* "2024-07-25T00:00:00Z"
Str_dateTimeUtc ==
  <<"2", "0", "2", "4", "-", "0", "7", "-", "2", "5", "T", "0", "0", ":",
    "0", "0", ":", "0", "0", "Z">>

\* "2024-07-25 13:36:08"
Str_dateTimeSpace ==
  <<"2", "0", "2", "4", "-", "0", "7", "-", "2", "5", " ", "1", "3", ":",
    "3", "6", ":", "0", "8">>

\* "2024-07-25t13:36:08+0530"
Str_dateTimeOffset ==
  <<"2", "0", "2", "4", "-", "0", "7", "-", "2", "5", "t", "1", "3", ":",
    "3", "6", ":", "0", "8", "+", "0", "5", "3", "0">>

\* "2024-07-25T13:36:08+05"
Str_dateTimeBadZone ==
  <<"2", "0", "2", "4", "-", "0", "7", "-", "2", "5", "T", "1", "3", ":",
    "3", "6", ":", "0", "8", "+", "0", "5">>

\* "13:36:08.365Z"
Str_time ==
  <<"1", "3", ":", "3", "6", ":", "0", "8", ".", "3", "6", "5", "Z">>

\* "13:36:08"
Str_timePlain ==
  <<"1", "3", ":", "3", "6", ":", "0", "8">>

\* "13:36"
Str_timeShort ==
  <<"1", "3", ":", "3", "6">>

\* "P1Y2M3DT4H5M6S"
Str_duration ==
  <<"P", "1", "Y", "2", "M", "3", "D", "T", "4", "H", "5", "M", "6", "S">>

\* "P"
Str_durationP ==
  <<"P">>

\* "PT"
Str_durationPT ==
  <<"P", "T">>

\* "P1M"
Str_durationMonth ==
  <<"P", "1", "M">>

\* "PT1.5S"
Str_durationSeconds ==
  <<"P", "T", "1", ".", "5", "S">>

\* "P1"
Str_durationNoUnit ==
  <<"P", "1">>

\* "user@example.com"
Str_email ==
  <<"u", "s", "e", "r", "@", "e", "x", "a", "m", "p", "l", "e", ".", "c",
    "o", "m">>

\* "user@example"
Str_emailNoDot ==
  <<"u", "s", "e", "r", "@", "e", "x", "a", "m", "p", "l", "e">>

\* "a@b@c.com"
Str_emailTwoAt ==
  <<"a", "@", "b", "@", "c", ".", "c", "o", "m">>

\* "https://api.example.com/v1"
Str_uri ==
  <<"h", "t", "t", "p", "s", ":", "/", "/", "a", "p", "i", ".", "e", "x",
    "a", "m", "p", "l", "e", ".", "c", "o", "m", "/", "v", "1">>

\* "urn:isbn:1"
Str_urn ==
  <<"u", "r", "n", ":", "i", "s", "b", "n", ":", "1">>

\* "http://a b"
Str_uriSpace ==
  <<"h", "t", "t", "p", ":", "/", "/", "a", " ", "b">>

\* "192.168.1.1"
Str_ipv4 ==
  <<"1", "9", "2", ".", "1", "6", "8", ".", "1", ".", "1">>

\* "256.1.1.1"
Str_ipv4Big ==
  <<"2", "5", "6", ".", "1", ".", "1", ".", "1">>

\* "1.1.1"
Str_ipv4Short ==
  <<"1", ".", "1", ".", "1">>

\* "01.1.1.1"
Str_ipv4Zero ==
  <<"0", "1", ".", "1", ".", "1", ".", "1">>

\* "2001:db8::1"
Str_ipv6 ==
  <<"2", "0", "0", "1", ":", "d", "b", "8", ":", ":", "1">>

\* "::1"
Str_ipv6Loopback ==
  <<":", ":", "1">>

\* "1:2:3:4:5:6:7:8"
Str_ipv6Full ==
  <<"1", ":", "2", ":", "3", ":", "4", ":", "5", ":", "6", ":", "7", ":",
    "8">>

\* "1::2::3"
Str_ipv6Twice ==
  <<"1", ":", ":", "2", ":", ":", "3">>

\* "1:2:3:4::5:6:7:8"
Str_ipv6Long ==
  <<"1", ":", "2", ":", "3", ":", "4", ":", ":", "5", ":", "6", ":", "7",
    ":", "8">>

\* "api.example.com"
Str_hostname ==
  <<"a", "p", "i", ".", "e", "x", "a", "m", "p", "l", "e", ".", "c", "o",
    "m">>

\* "active"
Str_active ==
  <<"a", "c", "t", "i", "v", "e">>

\* "-a.com"
Str_hostHyphen ==
  <<"-", "a", ".", "c", "o", "m">>

\* "a..b"
Str_hostDot ==
  <<"a", ".", ".", "b">>

\* "550e8400-e29b-<version>1d4-<variant>716-446655440000"
UuidString(version, variant) ==
  <<"5", "5", "0", "e", "8", "4", "0", "0", "-", "e", "2", "9", "b", "-">>
    \o <<version>> \o <<"1", "d", "4", "-">> \o <<variant>>
    \o <<"7", "1", "6", "-">>
    \o <<"4", "4", "6", "6", "5", "5", "4", "4", "0", "0", "0", "0">>

---------------------------------------------------------------------------
(* Bodies handed to the operations *)

BodyKeys == {"a"}
BodyVals ==
  {JNull, JNum(1, 1), JStr(Str_abc), JStr(Str_date), JStr(Str_badDate),
   JObj(NoFields)}
BodyObjs == UNION { {JObj(f) : f \in [S -> BodyVals]} : S \in SUBSET BodyKeys }
\* elements of root arrays: null, and objects over fewer field values
ElemVals == {JNull, JNum(1, 1), JStr(Str_abc)}
ElemObjs == UNION { {JObj(f) : f \in [S -> ElemVals]} : S \in SUBSET BodyKeys }
BodyElems == ElemObjs \cup {JNull}
BodyArrays == UNION { {JArr(a) : a \in [1..n -> BodyElems]} : n \in 0..MaxLen }
Bodies == BodyObjs \cup BodyArrays

\* the schema document of lines 685-709 for each body of the model
SchemaOf == [json \in Bodies |-> BuildSchema(json)]

---------------------------------------------------------------------------
(* Operations *)

Init ==
  /\ file \in {Absent, Corrupt}
  /\ dir \in BOOLEAN
  /\ Exists(file) => dir
  /\ last = NoCall
  /\ stage = "input"
  /\ items = <<>>
  /\ typeMap = <<>>
  /\ requiredFields = {}
  /\ text = <<>>
  /\ fmt = "none"
  /\ payload = JNull
  /\ instancePath = <<>>
  /\ val = NotWalked
  /\ Built
  /\ NoCalls

Idle == last = NoCall

\* the directory after a call: mkdir (recursive) is reached or not, and the
\* failure of a call that reached it is that of mkdir or that of the write
DirAfter(d, reached, ioOK) ==
  IF ~reached THEN {d} ELSE IF ioOK THEN {TRUE} ELSE {d, TRUE}

\* async createJsonSchema(folderName, fileName, json): the file it leaves,
\* mutant: a schema file that is already there and parses is kept
CreateResult_KeepExisting(f, json, ioOK) ==
  IF ioOK
    THEN [file |-> IF Parses(f) THEN f ELSE Written(SchemaOf[json]),
          outcome |-> "resolved",
          value |-> SchemaFilePath(FolderName, FileName),
          console |-> {"created"}]
    ELSE [file |-> f, outcome |-> "rejected", value |-> <<>>,
          console |-> {"createError"}]

\* how its promise settles and with what; ioOK: mkdir and writeFile succeed
CreateResult(f, json, ioOK) ==
  IF ioOK
    THEN [file |-> Written(SchemaOf[json]), outcome |-> "resolved",
          value |-> SchemaFilePath(FolderName, FileName),
          console |-> {"created"}]
    ELSE [file |-> f, outcome |-> "rejected", value |-> <<>>,
          console |-> {"createError"}]

\* mutant: the schema is regenerated without the fs.existsSync test
SyncResult_AlwaysCreate(f, body, createSchema, throwOnError, ioOK, verbose) ==
  IF createSchema THEN
    IF ioOK
      THEN TryCreated(Written(SchemaOf[body]), {}, body, throwOnError,
                      verbose, TRUE)
      ELSE [file |-> f, outcome |-> "throw", console |-> {},
            actual |-> NotWalked]
  ELSE [file |-> f] @@ TryResult(f, body, throwOnError, verbose, TRUE)

\* mutant: a missing schema is generated whatever createSchema says
SyncResult_CreateIfMissing(f, body, createSchema, throwOnError, ioOK, verbose) ==
  IF ~Exists(f) THEN
    IF ioOK
      THEN TryCreated(Written(SchemaOf[body]),
                      IF verbose THEN {"creating", "created"} ELSE {},
                      body, throwOnError, verbose, TRUE)
      ELSE [file |-> f, outcome |-> "throw",
            console |-> (IF verbose THEN {"creating"} ELSE {}),
            actual |-> NotWalked]
  ELSE [file |-> f] @@ TryResult(f, body, throwOnError, verbose, TRUE)

\* validateJsonSchemaSync(folderName, fileName, body, options): the file it
\* leaves, its outcome ("true", "false", or "throw") and its console output
SyncResult(f, body, createSchema, throwOnError, ioOK, verbose) ==
  IF createSchema /\ ~Exists(f) THEN
    IF ioOK
      THEN TryCreated(Written(SchemaOf[body]),
                      IF verbose THEN {"creating", "created"} ELSE {},
                      body, throwOnError, verbose, TRUE)
      ELSE [file |-> f, outcome |-> "throw",
            console |-> (IF verbose THEN {"creating"} ELSE {}),
            actual |-> NotWalked]
  ELSE [file |-> f] @@ TryResult(f, body, throwOnError, verbose, TRUE)

\* await this.createJsonSchema(...): a rejection propagates, otherwise the
\* try / catch part runs on the file written
AwaitCreate(created, body, throwOnError, verbose) ==
  IF created.outcome = "rejected"
    THEN [file |-> created.file, outcome |-> "throw",
          console |-> created.console, actual |-> NotWalked]
    ELSE TryCreated(created.file, created.console, body, throwOnError,
                    verbose, FALSE)

\* async validateJsonSchema(folderName, fileName, body, options)
AsyncResult(f, body, createSchema, throwOnError, ioOK, verbose) ==
  IF createSchema
    THEN AwaitCreate(CreateResult(f, body, ioOK), body, throwOnError, verbose)
  ELSE [file |-> f] @@ TryResult(f, body, throwOnError, verbose, FALSE)

CreateJsonSchema(json, ioOK) ==
  \E result \in {CreateResult(file, json, ioOK)} :
     /\ file' = result.file
     /\ dir' \in DirAfter(dir, TRUE, ioOK)
     /\ last' = [op |-> "createJsonSchema", body |-> json, before |-> file,
                 ioOK |-> ioOK, outcome |-> result.outcome,
                 value |-> result.value, console |-> result.console]
     /\ UNCHANGED <<stage, mergeVars, detectVars, walkVars,
               constructVars, raceVars>>

\* ioOK is drawn only when the call reaches mkdir / writeFile
ValidateJsonSchemaSync(body, createSchema, throwOnError, verbose, ioOK) ==
  \E result \in {SyncResult(file, body, createSchema, throwOnError, ioOK, verbose)} :
     /\ ioOK \/ (createSchema /\ ~Exists(file))
     /\ file' = result.file
     /\ dir' \in DirAfter(dir, createSchema /\ ~Exists(file), ioOK)
     /\ last' = [op |-> "validateJsonSchemaSync", body |-> body,
                 before |-> file, createSchema |-> createSchema,
                 throwOnError |-> throwOnError, verbose |-> verbose,
                 ioOK |-> ioOK, outcome |-> result.outcome,
                 console |-> result.console, actual |-> result.actual]
     /\ UNCHANGED <<stage, mergeVars, detectVars, walkVars,
               constructVars, raceVars>>

ValidateJsonSchema(body, createSchema, throwOnError, verbose, ioOK) ==
  \E result \in {AsyncResult(file, body, createSchema, throwOnError, ioOK, verbose)} :
     /\ ioOK \/ createSchema
     /\ file' = result.file
     /\ dir' \in DirAfter(dir, createSchema, ioOK)
     /\ last' = [op |-> "validateJsonSchema", body |-> body,
                 before |-> file, createSchema |-> createSchema,
                 throwOnError |-> throwOnError, verbose |-> verbose,
                 ioOK |-> ioOK, outcome |-> result.outcome,
                 console |-> result.console, actual |-> result.actual]
     /\ UNCHANGED <<stage, mergeVars, detectVars, walkVars,
               constructVars, raceVars>>

\* schemaExists(folderName, fileName)
SchemaExists ==
  /\ last' = [op |-> "schemaExists", before |-> file, outcome |-> Exists(file)]
  /\ UNCHANGED <<file, dir, stage, mergeVars, detectVars, walkVars,
               constructVars, raceVars>>

\* getSchemaPath(folderName, fileName)
GetSchemaPath ==
  /\ last' = [op |-> "getSchemaPath", before |-> file,
              outcome |-> getSchemaPath(FolderName, FileName)]
  /\ UNCHANGED <<file, dir, stage, mergeVars, detectVars, walkVars,
               constructVars, raceVars>>

\* the caller takes the result; the next call starts from the file as left
Return ==
  /\ ~Idle
  /\ last' = NoCall
  /\ UNCHANGED <<file, dir, stage, mergeVars, detectVars, walkVars,
               constructVars, raceVars>>

Next ==
  \/ /\ Idle
     /\ \E json \in Bodies, ioOK \in BOOLEAN : CreateJsonSchema(json, ioOK)
  \/ /\ Idle
     /\ \E body \in Bodies, createSchema \in BOOLEAN, throwOnError \in BOOLEAN,
           verbose \in BOOLEAN, ioOK \in BOOLEAN :
          ValidateJsonSchemaSync(body, createSchema, throwOnError, verbose, ioOK)
  \/ /\ Idle
     /\ \E body \in Bodies, createSchema \in BOOLEAN, throwOnError \in BOOLEAN,
           verbose \in BOOLEAN, ioOK \in BOOLEAN :
          ValidateJsonSchema(body, createSchema, throwOnError, verbose, ioOK)
  \/ Idle /\ SchemaExists
  \/ Idle /\ GetSchemaPath
  \/ Return

Spec == Init /\ [][Next]_vars

---------------------------------------------------------------------------
(* Specification of the field merger alone: the inputs are drawn from the   *)
(* bounded sample sequences and the action applies lines 693-694.           *)

MergeKeys == {"a", "b"}
\* a field value that is itself an array of objects: [{"a":1},{"a":null}]
NestedList == JArr(<<JObj([a |-> JNum(1, 1)]), JObj([a |-> JNull])>>)
MergeVals ==
  {JNull, JNum(1, 1), JStr(Str_abc), JStr(Str_date),
   JStr(Str_dateTime), JObj(NoFields), NestedList}
MergeObjs == UNION { {JObj(f) : f \in [S -> MergeVals]} : S \in SUBSET MergeKeys }
MergeInputs == UNION { [1..n -> MergeObjs] : n \in 0..MaxItems }

InitMerge ==
  /\ file = Absent
  /\ dir = FALSE
  /\ last = NoCall
  /\ stage = "input"
  /\ items \in MergeInputs
  /\ typeMap = <<>>
  /\ requiredFields = {}
  /\ text = <<>>
  /\ fmt = "none"
  /\ payload = JNull
  /\ instancePath = <<>>
  /\ val = NotWalked
  /\ Built
  /\ NoCalls

\* const typeMap = this._mergeTypeInfo(objectItems);
\* const requiredFields = this._getRequiredFields(objectItems);
MergeItems ==
  /\ stage = "input"
  /\ stage' = "merged"
  /\ typeMap' = _mergeTypeInfo(items)
  /\ requiredFields' = _getRequiredFields(items)
  /\ UNCHANGED <<file, dir, last, items, detectVars, walkVars,
               constructVars, raceVars>>

NextMerge == MergeItems

SpecMerge == InitMerge /\ [][NextMerge]_vars

\* The same action on the samples used to compare merges with one another:
\* fields that are null, a number, a plain string or a date string.
OrderVals == {JNull, JNum(1, 1), JStr(Str_abc), JStr(Str_date)}
OrderObjs == UNION { {JObj(f) : f \in [S -> OrderVals]} : S \in SUBSET MergeKeys }
OrderInputs == UNION { [1..n -> OrderObjs] : n \in 0..MaxItems }

InitOrder ==
  /\ file = Absent
  /\ dir = FALSE
  /\ last = NoCall
  /\ stage = "input"
  /\ items \in OrderInputs
  /\ typeMap = <<>>
  /\ requiredFields = {}
  /\ text = <<>>
  /\ fmt = "none"
  /\ payload = JNull
  /\ instancePath = <<>>
  /\ val = NotWalked
  /\ Built
  /\ NoCalls

SpecOrder == InitOrder /\ [][NextMerge]_vars

---------------------------------------------------------------------------
(* Specification of format detection alone: the input string is drawn from  *)
(* the sample strings and the action applies _detectFormat.                 *)

UuidNibbles ==
  {"0", "1", "2", "3", "4", "5", "6", "7", "8", "9",
   "a", "b", "c", "d", "e", "f", "B", "g"}

DetectInputs ==
  {Str_abc, Str_date, Str_badDate, Str_dateTime, Str_empty, Str_space,
   Str_notADate, Str_dateTimeUtc, Str_dateTimeSpace, Str_dateTimeOffset,
   Str_dateTimeBadZone, Str_time, Str_timePlain, Str_timeShort,
   Str_duration, Str_durationP, Str_durationPT, Str_durationMonth,
   Str_durationSeconds, Str_durationNoUnit, Str_email, Str_emailNoDot,
   Str_emailTwoAt, Str_uri, Str_urn, Str_uriSpace, Str_ipv4,
   Str_ipv4Big, Str_ipv4Short, Str_ipv4Zero, Str_ipv6, Str_ipv6Loopback,
   Str_ipv6Full, Str_ipv6Twice, Str_ipv6Long, Str_hostname, Str_active,
   Str_hostHyphen, Str_hostDot}
    \cup { UuidString(version, variant) : version, variant \in UuidNibbles }

InitDetect ==
  /\ file = Absent
  /\ dir = FALSE
  /\ last = NoCall
  /\ stage = "input"
  /\ items = <<>>
  /\ typeMap = <<>>
  /\ requiredFields = {}
  /\ text \in DetectInputs
  /\ fmt = "none"
  /\ payload = JNull
  /\ instancePath = <<>>
  /\ val = NotWalked
  /\ Built
  /\ NoCalls

\* const fmt = this._detectFormat(value);
DetectFormat ==
  /\ stage = "input"
  /\ stage' = "detected"
  /\ fmt' = _detectFormat(text)
  /\ UNCHANGED <<file, dir, last, mergeVars, text, walkVars,
               constructVars, raceVars>>

NextDetect == DetectFormat

SpecDetect == InitDetect /\ [][NextDetect]_vars

---------------------------------------------------------------------------
(* Specification of the path walk alone: the body and the path are drawn    *)
(* from bounded sets and the action applies lines 813-825.                  *)

\* most segments in a path
MaxSegments == 2

PathSegments == {<<"a">>, <<"b">>, <<"0">>, <<"1">>}

\* '/' + segment, for every segment
RECURSIVE JoinPath(_)
JoinPath(segs) ==
  IF segs = <<>> THEN <<>> ELSE <<"/">> \o Head(segs) \o JoinPath(Tail(segs))

SegmentLists == UNION { [1..n -> PathSegments] : n \in 0..MaxSegments }

WalkPaths == { JoinPath(segs) : segs \in SegmentLists }

WalkLeaves == {JNull, JNum(1, 1), JNum(0, 1), JStr(Str_abc), JStr(Str_empty)}
WalkInner ==
  WalkLeaves \cup { JObj([b |-> leaf]) : leaf \in WalkLeaves }
    \cup { JArr(<<leaf>>) : leaf \in WalkLeaves }
WalkBodies ==
  {JNull} \cup { JObj([a |-> inner]) : inner \in WalkInner }
    \cup { JArr(<<inner>>) : inner \in WalkInner }
    \cup {JObj(NoFields), JArr(<<>>)}

InitWalk ==
  /\ file = Absent
  /\ dir = FALSE
  /\ last = NoCall
  /\ stage = "input"
  /\ items = <<>>
  /\ typeMap = <<>>
  /\ requiredFields = {}
  /\ text = <<>>
  /\ fmt = "none"
  /\ payload \in WalkBodies
  /\ instancePath \in WalkPaths
  /\ val = NotWalked
  /\ Built
  /\ NoCalls

\* the body of validate.errors.forEach up to the computation of actual
ReportActual ==
  /\ stage = "input"
  /\ stage' = "walked"
  /\ val' = WalkPath(payload, instancePath)
  /\ UNCHANGED <<file, dir, last, mergeVars, detectVars, payload, instancePath,
                 constructVars, raceVars>>

NextWalk == ReportActual

SpecWalk == InitWalk /\ [][NextWalk]_vars

---------------------------------------------------------------------------
(* Specification of two concurrent validateJsonSchema calls with            *)
(* createSchema: true on the same folder and file name.  Each call runs     *)
(* from one await to the next in one step: await mkdir and await writeFile  *)
(* inside createJsonSchema, then await readFile, after which JSON.parse,    *)
(* compile and validate run without interruption.  mkdir and writeFile      *)
(* succeed.                                                                 *)

\* bodies that validate against their own schema when the call runs alone
RaceBodies ==
  {JArr(<<JObj([a |-> JNum(1, 1)])>>),
   JArr(<<JObj([a |-> JStr(Str_abc)])>>),
   JArr(<<JObj(NoFields)>>),
   JArr(<<>>),
   JObj([a |-> JNum(1, 1)])}

InitRace ==
  /\ file \in {Absent, Corrupt}
  /\ dir \in BOOLEAN
  /\ Exists(file) => dir
  /\ last = NoCall
  /\ stage = "input"
  /\ items = <<>>
  /\ typeMap = <<>>
  /\ requiredFields = {}
  /\ text = <<>>
  /\ fmt = "none"
  /\ payload = JNull
  /\ instancePath = <<>>
  /\ val = NotWalked
  /\ Built
  /\ NoCalls

\* validateJsonSchema(folder, name, body, {createSchema: true}) is called:
\* createJsonSchema infers the schema and reaches await mkdir
Invoke(p, body) ==
  /\ pc[p] = "idle"
  /\ \A q \in Calls \ {p} : pc[q] = "idle" \/ bodyOf[q] # body
  /\ pc' = [pc EXCEPT ![p] = "mkdir"]
  /\ bodyOf' = [bodyOf EXCEPT ![p] = body]
  /\ UNCHANGED <<file, dir, last, stage, mergeVars, detectVars, walkVars,
                 constructVars, readOf, returned>>

\* mkdir has resolved; writeFile is started
Mkdir(p) ==
  /\ pc[p] = "mkdir"
  /\ pc' = [pc EXCEPT ![p] = "writeFile"]
  /\ dir' = TRUE
  /\ UNCHANGED <<file, last, stage, mergeVars, detectVars, walkVars,
                 constructVars, bodyOf, readOf, returned>>

\* writeFile has resolved; createJsonSchema returns and readFile is started
WriteFile(p) ==
  /\ pc[p] = "writeFile"
  /\ pc' = [pc EXCEPT ![p] = "readFile"]
  /\ file' = Written(SchemaOf[bodyOf[p]])
  /\ UNCHANGED <<dir, last, stage, mergeVars, detectVars, walkVars,
                 constructVars, bodyOf, readOf, returned>>

\* readFile has resolved with the file as it is now; the call parses,
\* compiles, validates and returns
ReadFile(p) ==
  /\ pc[p] = "readFile"
  /\ pc' = [pc EXCEPT ![p] = "done"]
  /\ readOf' = [readOf EXCEPT ![p] = file]
  /\ returned' =
       [returned EXCEPT
          ![p] = TryResult(file, bodyOf[p], FALSE, FALSE, FALSE).outcome]
  /\ UNCHANGED <<file, dir, last, stage, mergeVars, detectVars, walkVars,
                 constructVars, bodyOf>>

NextRace ==
  \E p \in Calls :
    \/ \E body \in RaceBodies : Invoke(p, body)
    \/ Mkdir(p)
    \/ WriteFile(p)
    \/ ReadFile(p)

SpecRace == InitRace /\ [][NextRace]_vars

---------------------------------------------------------------------------
(* Specification of the constructor alone: the global bru, the argument and *)
(* the presence of ./api-schemas are drawn from small sets and the action   *)
(* runs new SchemaValidator(argument).                                      *)

InitConstruct ==
  /\ file = Absent
  /\ dir = FALSE
  /\ last = NoCall
  /\ stage = "input"
  /\ items = <<>>
  /\ typeMap = <<>>
  /\ requiredFields = {}
  /\ text = <<>>
  /\ fmt = "none"
  /\ payload = JNull
  /\ instancePath = <<>>
  /\ val = NotWalked
  /\ bru \in BruValues
  /\ argument \in Arguments
  /\ defaultDirExists \in BOOLEAN
  /\ instance = [state |-> "new"]
  /\ NoCalls

Construct ==
  /\ instance.state = "new"
  /\ instance' = ConstructorResult(bru, argument, defaultDirExists)
  /\ UNCHANGED <<file, dir, last, stage, mergeVars, detectVars, walkVars,
                 bru, argument, defaultDirExists, raceVars>>

NextConstruct == Construct

SpecConstruct == InitConstruct /\ [][NextConstruct]_vars

---------------------------------------------------------------------------
(* Claims about the operations on the schema file (checked under Spec) *)

ValidateOps == {"validateJsonSchemaSync", "validateJsonSchema"}
Validated == last.op \in ValidateOps

\* the stored schema f loads, compiles and accepts body
Accepts(f, body) == Parses(f) /\ AjvCompiles(f.doc) /\ AjvValidate(f.doc, body)

\* the outcome a validation that does not pass must have
Failure(throwOnError) == IF throwOnError THEN "throw" ELSE "false"

\* C1: round trip -- whenever a plain validate call (sync or async, without
\* createSchema) finds in the file the schema that createJsonSchema generated
\* from the very body it is given, it returns true.
C1_RoundTrip ==
  (Validated /\ ~last.createSchema
     /\ last.before = Written(SchemaOf[last.body]))
    => last.outcome = "true"

\* C2: async validateJsonSchema with createSchema: true and a schema already
\* present in the file leaves the file content unchanged and validates the
\* body against the pre-existing schema.
C2_AsyncCreatesOnlyIfMissing ==
  (last.op = "validateJsonSchema" /\ last.createSchema /\ last.ioOK
     /\ Parses(last.before))
    => /\ file = last.before
       /\ last.outcome = "true" <=> Accepts(last.before, last.body)

\* C3: validateJsonSchemaSync with createSchema: true -- with no schema file
\* (and a write that succeeds) it writes the schema inferred from the body and
\* validates against it; with the file present it leaves the content
\* unchanged and validates against the stored schema, so that a body the
\* stored schema rejects does not pass (false, or a throw under throwOnError).
C3_SyncFirstRunCreates ==
  (last.op = "validateJsonSchemaSync" /\ last.createSchema) =>
    IF Exists(last.before)
      THEN /\ file = last.before
           /\ last.outcome = "true" <=> Accepts(last.before, last.body)
           /\ last.outcome # "true" => last.outcome = Failure(last.throwOnError)
      ELSE last.ioOK =>
           /\ file = Written(SchemaOf[last.body])
           /\ last.outcome = "true" <=> Accepts(file, last.body)
           /\ last.outcome # "true" => last.outcome = Failure(last.throwOnError)

\* C3 witness: a later sync call with createSchema: true finds a stored schema
\* that was generated from another body, leaves it alone and returns false.
C3_Witness ==
  /\ last.op = "validateJsonSchemaSync" /\ last.createSchema
  /\ Parses(last.before)
  /\ last.before # Written(SchemaOf[last.body])
  /\ file = last.before
  /\ last.outcome = "false"

\* C4: sync / async parity -- from the same file state (absent, or present
\* with a schema), with the same body and options, validateJsonSchemaSync has
\* the outcome and leaves the file content that validateJsonSchema has and
\* leaves.
C4_SyncAsyncParity ==
  (last.op = "validateJsonSchemaSync"
     /\ (Parses(last.before) \/ ~Exists(last.before))) =>
    LET async == AsyncResult(last.before, last.body, last.createSchema,
                             last.throwOnError, last.ioOK, last.verbose)
    IN file = async.file /\ last.outcome = async.outcome

\* C5: with createSchema false and throwOnError false, a missing or
\* unparsable schema file makes both validate methods return false.
C5_MissingSchemaReturnsFalse ==
  (Validated /\ ~last.createSchema /\ ~last.throwOnError /\ ~Parses(last.before))
    => last.outcome = "false"

\* C5 witness: async validation without options against a missing file, and
\* against an unparsable one, has completed.
C5_Witness ==
  /\ Validated /\ ~last.createSchema /\ ~last.throwOnError
  /\ ~Parses(last.before)
  /\ last.outcome = "false"
  /\ last.op = "validateJsonSchema"
  /\ last.before = Corrupt

\* C6: with throwOnError: true both validate methods never return false:
\* they throw when the file read is missing or unparsable and when the body
\* fails validation, and return only true.
C6_ThrowOnError ==
  (Validated /\ last.throwOnError) =>
    /\ last.outcome \in {"true", "throw"}
    /\ last.outcome = "true" => Accepts(file, last.body)
    /\ ~Accepts(file, last.body) => last.outcome = "throw"

\* C6 witness: the stored schema loads, the body fails it, the call throws.
C6_Witness ==
  /\ Validated /\ last.throwOnError /\ ~last.createSchema
  /\ Parses(file) /\ ~AjvValidate(file.doc, last.body)
  /\ last.outcome = "throw"

\* C7: with throwOnError false both validate methods always return a
\* boolean and never throw, also when createSchema: true and creating the
\* directory or writing the file fails.
C7_NeverThrowsByDefault ==
  (Validated /\ ~last.throwOnError) => last.outcome \in {"true", "false"}

\* the non-empty root arrays of plain objects, and the files created from them
PlainArrays ==
  { b \in BodyArrays : Len(b.a) > 0 /\ \A i \in 1..Len(b.a) : IsPlainObject(b.a[i]) }
PlainArrayFiles == { Written(SchemaOf[b]) : b \in PlainArrays }

\* the item breaks the items schema as C8 says: a required field is absent or
\* null, or a field has a type tag that is not in its inferred type list
BreaksItemSchema(itemSchema, item) ==
  /\ IsPlainObject(item)
  /\ \/ \E key \in itemSchema.required :
          (~HasOwn(item, key)) \/ IsNull(item.o[key])
     \/ \E key \in DOMAIN item.o \cap DOMAIN itemSchema.properties :
          ~SeqContains(itemSchema.properties[key].type, item.o[key].k)

\* C8: once the file holds the schema created from a non-empty array of
\* plain objects, validating (against that stored schema) an array body with
\* an item that lacks or nulls a required field, or has a field of a type tag
\* outside the inferred list, does not pass: false, or a throw under
\* throwOnError.
C8_ViolatingItemRejected ==
  ( /\ Validated
    /\ last.op = "validateJsonSchemaSync" \/ ~last.createSchema
    /\ last.before \in PlainArrayFiles
    /\ IsArray(last.body)
    /\ \E i \in 1..Len(last.body.a) :
         BreaksItemSchema(last.before.doc.items, last.body.a[i]) )
    => last.outcome = Failure(last.throwOnError)

\* C8 witness: the stored schema requires a field that an item of the
\* validated body holds as null, and the call returned false.
C8_Witness ==
  /\ Validated /\ ~last.createSchema /\ ~last.throwOnError
  /\ last.before \in PlainArrayFiles
  /\ IsArray(last.body)
  /\ \E i \in 1..Len(last.body.a) :
       /\ IsPlainObject(last.body.a[i])
       /\ \E key \in last.before.doc.items.required :
            HasOwn(last.body.a[i], key) /\ IsNull(last.body.a[i].o[key])
  /\ last.outcome = "false"

\* the members of a descriptor's type union
TagSet(descriptor) == { descriptor.type[i] : i \in 1..Len(descriptor.type) }

\* the file and the outcome that the validate call recorded in last would
\* have had with this value of verbose
Rerun(verbose) ==
  IF last.op = "validateJsonSchemaSync"
    THEN SyncResult(last.before, last.body, last.createSchema,
                    last.throwOnError, last.ioOK, verbose)
    ELSE AsyncResult(last.before, last.body, last.createSchema,
                     last.throwOnError, last.ioOK, verbose)

\* C16: diagnostics do not affect the outcome -- for the same file state,
\* body, createSchema and throwOnError, the boolean returned (or the throw)
\* and the resulting file content of both validate methods are the same for
\* verbose true and verbose false.
C16_VerboseNoEffect ==
  Validated =>
    /\ Rerun(~last.verbose).file = file
    /\ Rerun(~last.verbose).outcome = last.outcome

\* C16 witness: a verbose call has printed the error report with an actual
\* value and returned false; the same call without verbose prints nothing.
C16_Witness ==
  /\ Validated /\ last.verbose
  /\ "errors" \in last.console /\ last.actual # NotWalked
  /\ last.outcome = "false"
  /\ Rerun(FALSE).console = {}

\* a second inference: createJsonSchema has replaced the schema inferred
\* from a sample set (a non-empty array of plain objects) by the schema
\* inferred from a non-empty sample set that is valid against the first
Reinferred ==
  /\ last.op = "createJsonSchema" /\ last.outcome = "resolved"
  /\ last.before \in PlainArrayFiles
  /\ IsArray(last.body) /\ Len(last.body.a) > 0
  /\ Accepts(last.before, last.body)

\* the fields that both items schemas describe
CommonFields(first, second) ==
  DOMAIN first.properties \cap DOMAIN second.properties

\* C17 as stated: the second schema's required set is a subset of (or equal
\* to) the first's, and each field's type union in the second schema is a
\* superset of its type union in the first.
C17_IdempotenceAsStated ==
  Reinferred =>
    LET first == last.before.doc.items
        second == file.doc.items
    IN /\ second.required \subseteq first.required
       /\ \A key \in CommonFields(first, second) :
            TagSet(first.properties[key]) \subseteq TagSet(second.properties[key])

\* C17, corrected: the second schema's required set is a superset of (or
\* equal to) the first's, and each field's type union in the second schema
\* is a subset of its type union in the first -- inferring again from
\* samples the first schema accepts never yields a weaker schema.
C17_Idempotence ==
  Reinferred =>
    LET first == last.before.doc.items
        second == file.doc.items
    IN /\ first.required \subseteq second.required
       /\ \A key \in CommonFields(first, second) :
            TagSet(second.properties[key]) \subseteq TagSet(first.properties[key])

\* C17 witness: the second inference has made a field required that the
\* first left optional, and has dropped 'null' from its type union.
C17_Witness ==
  /\ Reinferred
  /\ file.doc.items.required # last.before.doc.items.required
  /\ \E key \in CommonFields(last.before.doc.items, file.doc.items) :
       /\ "null" \in TagSet(last.before.doc.items.properties[key])
       /\ "null" \notin TagSet(file.doc.items.properties[key])

\* the array schema has a field-aware items schema
FieldAware(node) ==
  /\ "items" \in DOMAIN node
  /\ "properties" \in DOMAIN node.items
  /\ "required" \in DOMAIN node.items

\* C18: createJsonSchema gives an array body a field-aware items schema
\* (type object with merged properties and required) if and only if the
\* array is non-empty and its first element is a plain object; an empty
\* array and an array whose first element is null, an array or a scalar get
\* no object items schema.
C18_FirstElementPolicy ==
  (last.op = "createJsonSchema" /\ last.outcome = "resolved"
     /\ IsArray(last.body)) =>
    (FieldAware(file.doc)
       <=> (Len(last.body.a) > 0 /\ IsPlainObject(last.body.a[1])))

\* C20: createJsonSchema resolves to the path that getSchemaPath returns,
\* <base>/<folder>/<name>_schema.json, with the file and its directory in
\* place; schemaExists reports the presence of the file, and no create or
\* validate operation removes a file that exists.
C20_CreatedStaysCreated ==
  [][ /\ (last'.op = "createJsonSchema" /\ last'.outcome = "resolved") =>
          /\ last'.value = getSchemaPath(FolderName, FileName)
          /\ last'.value =
               SchemaBasePath \o <<"/">> \o FolderName \o <<"/">> \o FileName
                 \o <<"_", "s", "c", "h", "e", "m", "a", ".", "j", "s", "o", "n">>
          /\ Exists(file') /\ dir'
      /\ last'.op = "schemaExists" => last'.outcome = Exists(file)
      /\ Exists(file) => Exists(file') ]_vars

\* C20 witness: after a create that found neither file nor directory, and
\* after it has resolved, schemaExists has returned true.
C20_Witness ==
  /\ last.op = "schemaExists"
  /\ last.outcome = TRUE
  /\ Parses(file) /\ dir

C28_ValidateReadOnly ==
  [][ (last'.op \in ValidateOps /\ ~last'.createSchema) =>
        (file' = file /\ dir' = dir) ]_vars

\* C28 witness: with neither file nor directory in place, a validate call
\* without createSchema has thrown (throwOnError) and left both absent.
C28_Witness ==
  /\ Validated /\ ~last.createSchema
  /\ last.throwOnError /\ last.outcome = "throw"
  /\ last.before = Absent /\ file = Absent /\ ~dir

---------------------------------------------------------------------------
(* Claims about the field merger (checked under SpecMerge) *)

Merged == stage = "merged"

\* the field is present with a non-null value in the item
PresentNonNull(item, key) == key \in DOMAIN item.o /\ item.o[key] # JNull

\* C9: _getRequiredFields(items) is exactly the set of field names present
\* with a non-null value in every item, and empty for an empty sequence.
C9_RequiredExact ==
  Merged =>
    requiredFields =
      IF items = <<>> THEN {}
      ELSE { key \in MergeKeys :
               \A i \in 1..Len(items) : PresentNonNull(items[i], key) }

\* C9 witness: samples like [{a:1},{a:2,b:3}] -- a required, b not.
C9_Witness ==
  /\ Merged /\ Len(items) = 2
  /\ requiredFields = {"a"}
  /\ "b" \notin DOMAIN items[1].o
  /\ PresentNonNull(items[2], "b")

\* C10: in the output of _mergeTypeInfo a field's type includes 'null' iff
\* the field is absent or null in some sample, its non-null members are
\* exactly the type tags of the non-null values observed, and a field only
\* ever null or absent has the single type 'null'.
C10_TypeUnionExact ==
  Merged =>
    \A key \in DOMAIN typeMap :
      LET seen == { i \in 1..Len(items) : PresentNonNull(items[i], key) }
      IN /\ "null" \in TagSet(typeMap[key]) <=> seen # 1..Len(items)
         /\ TagSet(typeMap[key]) \ {"null"} = { items[i].o[key].k : i \in seen }
         /\ seen = {} =>
              typeMap[key].type = <<"null">> /\ ~typeMap[key].list

\* C10 witness: a field that is a number in one sample and missing from the
\* other gets the union ["number", "null"]; another is only ever null.
C10_Witness ==
  /\ Merged /\ Len(items) = 2
  /\ DOMAIN typeMap = {"a", "b"}
  /\ typeMap["a"].type = <<"number", "null">>
  /\ "a" \notin DOMAIN items[2].o
  /\ typeMap["b"].type = <<"null">>

\* C11: format merge conservatism -- a merged field carries a format only if
\* every non-null string value observed for that field, in every sample, was
\* detected with that same format (a string with no detected format among
\* them leaves the field without a format).
C11_FormatConservative ==
  Merged =>
    \A key \in DOMAIN typeMap :
      "format" \in DOMAIN typeMap[key] =>
        \A i \in 1..Len(items) :
          (PresentNonNull(items[i], key) /\ items[i].o[key].k = "string") =>
            _detectFormat(items[i].o[key].s) = typeMap[key].format

\* C12: a merged field whose non-null values have more than one type tag
\* across the samples gets a union type (a type list) and carries no format.
C12_MixedTypesNoFormat ==
  Merged =>
    \A key \in DOMAIN typeMap :
      Cardinality(TagSet(typeMap[key]) \ {"null"}) > 1 =>
        typeMap[key].list /\ "format" \notin DOMAIN typeMap[key]

---------------------------------------------------------------------------
(* Claims about format detection (checked under SpecDetect) *)

Detected == stage = "detected"

\* the positions in FORMAT_PATTERNS of the entries whose test accepts v
Accepting(v) ==
  { i \in 1..Len(FORMAT_PATTERNS) : PatternTest(FORMAT_PATTERNS[i], v) }

\* C13: _detectFormat is an ordered first-match-wins cascade -- it returns
\* the tag of the first entry, in the order date-time, date, time, duration,
\* uuid, email, uri, ipv4, ipv6, hostname, whose test accepts the string,
\* and no tag if none accepts; '2024-07-25' is tagged date and
\* '2024-07-25T13:36:08.365Z' date-time.
C13_FirstMatchWins ==
  Detected =>
    /\ FORMAT_PATTERNS =
         <<"date-time", "date", "time", "duration", "uuid", "email", "uri",
           "ipv4", "ipv6", "hostname">>
    /\ IF Accepting(text) = {} THEN fmt = "none"
       ELSE \E i \in Accepting(text) :
              /\ \A j \in Accepting(text) : i <= j
              /\ fmt = FORMAT_PATTERNS[i]
    /\ text = Str_date => fmt = "date"
    /\ text = Str_dateTime => fmt = "date-time"

\* C13 witness: a string that both the ipv4 and the hostname test accept has
\* been tagged with the earlier of the two.
C13_Witness ==
  /\ Detected
  /\ PatternTest("ipv4", text) /\ PatternTest("hostname", text)
  /\ fmt = "ipv4"

\* C14: a string is tagged uuid only if it has the 8-4-4-4-12 hexadecimal
\* form with the version nibble in 1..5 and the variant nibble in
\* {8, 9, a, b} (in either case).
C14_UuidNibbles ==
  (Detected /\ fmt = "uuid") =>
    /\ Len(text) = 36
    /\ \A i \in 1..36 :
         IF i \in {9, 14, 19, 24} THEN text[i] = "-" ELSE text[i] \in HexDigits
    /\ text[15] \in {"1", "2", "3", "4", "5"}
    /\ text[20] \in {"8", "9", "a", "b", "A", "B"}

---------------------------------------------------------------------------
(* Claims about the path walk (checked under SpecWalk) *)

Walked == stage = "walked"

\* the segments of a path, without the empty ones
RECURSIVE NonEmpty(_)
NonEmpty(parts) ==
  IF parts = <<>> THEN <<>>
  ELSE IF Head(parts) = <<>> THEN NonEmpty(Tail(parts))
       ELSE <<Head(parts)>> \o NonEmpty(Tail(parts))

\* the segment exists on the node: an own key of an object, an index of an
\* array; nothing exists on a scalar or on null
SegmentExists(node, seg) ==
  \/ node.k = "object" /\ \E key \in DOMAIN node.o : KeyChars[key] = seg
  \/ node.k = "array" /\ IsIndex(seg) /\ NumVal(seg) < Len(node.a)

\* the value stored at the path, or undefined as soon as a segment is missing
RECURSIVE Resolve(_, _)
Resolve(node, segs) ==
  IF segs = <<>> THEN node
  ELSE IF SegmentExists(node, Head(segs))
    THEN Resolve(Get(node, Head(segs)), Tail(segs))
    ELSE Undefined

SeenFormats(its, key) ==
  { _detectFormat(its[i].o[key].s) :
      i \in { j \in 1..Len(its) :
                PresentNonNull(its[j], key) /\ its[j].o[key].k = "string" } }
    \ {"none"}

C24_RequiredIffNotNullable ==
  (Merged /\ items # <<>>) =>
    /\ DOMAIN typeMap = UNION { DOMAIN items[i].o : i \in 1..Len(items) }
    /\ requiredFields \subseteq DOMAIN typeMap
    /\ \A key \in DOMAIN typeMap :
         key \in requiredFields <=> "null" \notin TagSet(typeMap[key])

\* C24 witness: of two fields one is required with a non-null type and the
\* other, null in one sample, is optional with 'null' in its type.
C24_Witness ==
  /\ Merged /\ Len(items) = 2
  /\ DOMAIN typeMap = {"a", "b"}
  /\ requiredFields = {"a"}
  /\ "null" \notin TagSet(typeMap["a"])
  /\ \E i \in 1..2 : HasOwn(items[i], "b") /\ IsNull(items[i].o["b"])
  /\ "null" \in TagSet(typeMap["b"])

\* C29: every descriptor of _mergeTypeInfo is well formed -- its type is
\* never empty, it is a list iff it has at least two tags, the tags are
\* distinct, 'null' occurs only as the last one, and a format is present
\* only if the field was a non-null string in some sample.
C29_WellFormedDescriptor ==
  Merged =>
    \A key \in DOMAIN typeMap :
      LET tags == typeMap[key].type
      IN /\ Len(tags) >= 1
         /\ typeMap[key].list <=> Len(tags) >= 2
         /\ \A i, j \in 1..Len(tags) : tags[i] = tags[j] => i = j
         /\ \A i \in 1..Len(tags) : tags[i] = "null" => i = Len(tags)
         /\ "format" \in DOMAIN typeMap[key] =>
              /\ "string" \in TagSet(typeMap[key])
              /\ \E i \in 1..Len(items) :
                   /\ PresentNonNull(items[i], key)
                   /\ items[i].o[key].k = "string"

\* C29 witness: a field that was a string with a format in one sample and
\* absent or null in another has the list ["string", "null"] and a format;
\* a field that was only ever null has the single tag 'null'.
C29_Witness ==
  /\ Merged
  /\ \E key \in DOMAIN typeMap :
       /\ Len(typeMap[key].type) = 2
       /\ typeMap[key].list
       /\ typeMap[key].type[2] = "null"
       /\ typeMap[key].type[1] = "string"
       /\ "format" \in DOMAIN typeMap[key]
  /\ \E key \in DOMAIN typeMap :
       ~typeMap[key].list /\ typeMap[key].type = <<"null">>

\* C26: adding samples can only weaken -- for every split of the samples
\* into S followed by T, a field of S that is required for S followed by T
\* is required for S alone, and the type tags ('null' included) inferred for
\* a field of S from S are among those inferred from S followed by T.
C26_AddingSamplesWeakens ==
  Merged =>
    \A n \in 1..Len(items) :
      \A key \in AllKeys(SubSeq(items, 1, n)) :
        /\ key \in requiredFields =>
             key \in _getRequiredFields(SubSeq(items, 1, n))
        /\ TagSet(_mergeTypeInfo(SubSeq(items, 1, n))[key])
             \subseteq TagSet(typeMap[key])

\* C26 witness: the second sample has made a field of the first optional
\* and has added a type tag to another.
C26_Witness ==
  /\ Merged /\ Len(items) = 2
  /\ _getRequiredFields(SubSeq(items, 1, 1)) = {"a", "b"}
  /\ requiredFields = {"b"}
  /\ "null" \in TagSet(typeMap["a"])
  /\ Cardinality(TagSet(typeMap["b"])) = 2

\* the orders in which an object can list the keys
KeyOrders == {<<"a", "b">>, <<"b", "a">>}

Permute(list, p) == [i \in 1..Len(list) |-> list[p[i]]]

\* what the claim compares: per field its set of type tags (nullability is
\* the membership of 'null') and its format
Summary(entries) ==
  { <<entries[i].key, TagSet(entries[i].descriptor),
      IF "format" \in DOMAIN entries[i].descriptor
        THEN entries[i].descriptor.format ELSE "none">> :
    i \in 1..Len(entries) }

\* the same of a type map
MapSummary(map) ==
  { <<key, TagSet(map[key]),
      IF "format" \in DOMAIN map[key] THEN map[key].format ELSE "none">> :
    key \in DOMAIN map }

\* the members of a list
Members(list) == { list[i] : i \in 1..Len(list) }

\* C25: the merge is order-independent -- permuting the sample objects, or
\* changing the key insertion order inside any sample, leaves unchanged the
\* required set and, for each field, its set of type tags, its nullability
\* and its format.  (The sample sequences of SpecOrder are closed under
\* permutation, so every permuted sequence is itself checked against every
\* key order.)
C25_OrderIndependent ==
  Merged =>
    /\ \A p \in Permutations(1..Len(items)) :
         /\ MapSummary(_mergeTypeInfo(Permute(items, p))) = MapSummary(typeMap)
         /\ _getRequiredFields(Permute(items, p)) = requiredFields
    /\ \A orders \in [1..Len(items) -> KeyOrders] :
         /\ Summary(MergeEntries(items, orders)) = MapSummary(typeMap)
         /\ Members(RequiredList(items, orders)) = requiredFields

\* C25 witness: samples like [{a:1},{a:"abc",b:1}] -- swapping them swaps
\* the order of the tags of a, and the key order of the second sample
\* decides the order of the entries, yet a stays required and b optional.
C25_Witness ==
  /\ Merged /\ Len(items) = 2
  /\ requiredFields = {"a"}
  /\ DOMAIN typeMap = {"a", "b"}
  /\ typeMap["a"].type = <<"number", "string">>
  /\ _mergeTypeInfo(Permute(items, <<2, 1>>))["a"].type = <<"string", "number">>
  /\ MergeEntries(Permute(items, <<2, 1>>), <<<<"b", "a">>, <<"a", "b">>>>)[1].key = "b"
  /\ MergeEntries(items, <<<<"a", "b">>, <<"a", "b">>>>)[1].key = "a"

\* a non-empty array all of whose elements are plain objects
IsObjectArray(v) ==
  IsArray(v) /\ Len(v.a) > 0 /\ \A i \in 1..Len(v.a) : IsPlainObject(v.a[i])

\* C19: recursion invariant -- a field of the items of a root array whose
\* value is an array of objects gets a descriptor with an items schema that
\* carries the merged properties and the required set of its own sibling
\* items; it is not left as a bare {type: array}.
C19_NestedArraysMerged ==
  Merged =>
    \A key \in DOMAIN typeMap :
      (\E i \in 1..Len(items) :
          HasOwn(items[i], key) /\ IsObjectArray(items[i].o[key])) =>
        /\ "items" \in DOMAIN typeMap[key]
        /\ "properties" \in DOMAIN typeMap[key].items
        /\ "required" \in DOMAIN typeMap[key].items

---------------------------------------------------------------------------
(* Claims about the constructor (checked under SpecConstruct) *)

\* C21: constructor auto-detection -- with a global bru that has a cwd
\* function the constructor does not throw and the base path is bru.cwd(),
\* '/', and the folder name (default 'api-schemas'); otherwise the base path
\* is the argument unchanged, and the constructor throws iff the argument
\* is the default 'api-schemas' and that directory does not exist.
C21_ConstructorAutoDetect ==
  instance.state # "new" =>
    IF bru \notin {Undefined, JNull} /\ bru.cwd.k = "function"
      THEN /\ instance.state = "built"
           /\ instance.schemaBasePath
                = bru.cwd.returns \o <<"/">> \o FolderOrPath(argument)
      ELSE /\ instance.state = "threw"
                <=> (FolderOrPath(argument) = DefaultFolder /\ ~defaultDirExists)
           /\ instance.state = "built" =>
                instance.schemaBasePath = FolderOrPath(argument)

---------------------------------------------------------------------------
(* Claims about concurrent calls (checked under SpecRace) *)

\* what the call returns when no other call runs
Alone(body) == AsyncResult(Absent, body, TRUE, FALSE, TRUE, FALSE).outcome

\* C27: two concurrent validateJsonSchema calls with createSchema: true on
\* the same folder and file name and with different bodies each validate
\* against the schema generated from their own body; hence, if each call
\* alone returns true, both return true under every interleaving.
C27_ConcurrentCallsIsolated ==
  (\A p \in Calls : pc[p] = "done" /\ Alone(bodyOf[p]) = "true") =>
    \A p \in Calls : returned[p] = "true"

====
